---- MODULE Spec2Model ----
(***************************************************************************)
(* State-machine model of agent/diayn_with_controller.py: the DIAYN agent   *)
(* with a learned skill controller (class DIAYNwithController, a subclass   *)
(* of DDPGAgent).                                                           *)
(*                                                                          *)
(* Abstraction of the numerics.  A network's parameter tensor is one        *)
(* natural number; an optimizer step that finds a gradient on a parameter   *)
(* moves it by one.  A gradient buffer (.grad) is the set of the losses     *)
(* whose backward pass has accumulated into it since it was last cleared,   *)
(* or the marker NoGrad for .grad = None.  A network's output is the record *)
(* of everything it was computed from, so two outputs are equal exactly     *)
(* when they were computed from the same parameters and inputs.  Random     *)
(* draws (the skill index, the action noise) are explicit inputs.           *)
(***************************************************************************)
EXTENDS Integers, Sequences, FiniteSets, TLC

\* cfg:          the configuration the agents were constructed with
\* agents:       every agent's parameters, gradient buffers, optimizers
\*               and current_meta
\* replay_drawn: how many batches the replay iterator has handed out
\* sampled:      per agent, the skill vector its latest act sampled
\* last:         the most recent call
VARIABLES cfg, agents, replay_drawn, sampled, last

vars == <<cfg, agents, replay_drawn, sampled, last>>

(***************************************************************************)
(* Bounds of the model.                                                     *)
(***************************************************************************)
\* largest skill_dim a configuration may choose
MaxSkillDim == 2
\* largest training step counter a caller passes to act / update
MaxStep == 1
\* how many batches the replay iterator hands out in a behaviour
MaxBatches == 1

(***************************************************************************)
(* Configuration consumed from the base agent.                              *)
(***************************************************************************)
\* self.update_every_steps
UpdateEverySteps == 2
\* self.num_expl_steps
NumExplSteps == 1
\* self.use_tb or self.use_wandb: metrics are recorded
Telemetry == TRUE

\* "self" is the agent under training; "other" is the pretrained agent
\* that init_from reads
Agents == {"self", "other"}

\* The parameter groups.  The critic is a trunk followed by the two Q
\* heads; the critic target has the same layout.
Nets == {"encoder", "actor", "critic_trunk", "critic_heads",
         "target_trunk", "target_heads", "diayn"}

Opts == {"actor_opt", "critic_opt", "diayn_opt", "encoder_opt"}

\* the parameters the base agent's optimizers were constructed over
BaseOptParams(opt) ==
    CASE opt = "actor_opt"   -> {"actor"}
      [] opt = "critic_opt"  -> {"critic_trunk", "critic_heads"}
      [] opt = "encoder_opt" -> {"encoder"}

\* line 52: diayn_opt is constructed over self.diayn.parameters()
OptParams(opt) == IF opt = "diayn_opt" THEN {"diayn"} ELSE BaseOptParams(opt)

\* .grad = None
NoGrad == {"None"}

\* self.current_meta = None (a skill vector has at least one entry)
None == <<>>

\* observations and noise draws are opaque values
Obs == {"o1", "o2"}
Noise == {"eps1", "eps2"}
\* no noise is drawn
NoNoise == "none"
Steps == 0..MaxStep
SkillDims == 1..MaxSkillDim

\* a 1-based index into the zero vector: skill 0 sets no entry
OneHotOffByOne(n, k) == [i \in 1..n |-> IF i = k THEN 1 ELSE 0]

\* torch.zeros(n) with entry k (0-based) set to 1.0
OneHot(n, k) == [i \in 1..n |-> IF i = k + 1 THEN 1 ELSE 0]

\* what a caller may pass as the meta argument of act
CallerMetas(n) == {None, OneHot(n, 0)}

\* encoder_opt says whether the base agent built an encoder optimizer
\* (self.encoder_opt is not None); on_cuda0 says whether the agent's
\* device is "cuda:0"
Configs ==
    [skill_dim      : SkillDims,
     update_encoder : BOOLEAN,
     encoder_opt    : BOOLEAN,
     init_critic    : BOOLEAN,
     on_cuda0       : BOOLEAN]

\* the agents start from different weights: the pretrained agent's are
\* values training does not give a fresh agent within the bound
InitParam(a) == IF a = "self" THEN 0 ELSE MaxBatches + 1

\* the agent after __init__: no gradient yet, no optimizer step taken,
\* the critic target a copy of the critic, current_meta None
InitAgent(a) ==
    [params       |-> [n \in Nets |-> InitParam(a)],
     grads        |-> [n \in Nets |-> NoGrad],
     opt_steps    |-> [o \in Opts |-> 0],
     current_meta |-> None]

NoAction == [kind |-> "none", actor |-> 0, encoder |-> 0, obs |-> "o1",
             skill |-> <<>>, step |-> 0, noise |-> NoNoise]

NoQ == [critic_trunk |-> 0, critic_heads |-> 0, actor |-> 0, batch |-> 0]

\* the record of the most recent call: its arguments, the random draws
\* made inside it, what it returned and the optimizer events in order
NoCall ==
    [op |-> "init", agent |-> "self", src |-> "self",
     obs |-> "o1", meta |-> None, step |-> 0, eval_mode |-> FALSE,
     draw_skill |-> 0, draw_noise |-> NoNoise,
     action |-> NoAction, metrics |-> {}, ret_meta |-> None,
     trace |-> <<>>, raised |-> FALSE, skipped |-> FALSE, batches |-> 0,
     uac_pre |-> InitAgent("self"), uac_post |-> InitAgent("self"),
     uac_start |-> 0, adv_q |-> NoQ, specs |-> <<>>]

Init ==
    /\ cfg \in Configs
    /\ agents = [a \in Agents |-> InitAgent(a)]
    /\ replay_drawn = 0
    /\ sampled = [a \in Agents |-> None]
    /\ last = NoCall

(***************************************************************************)
(* act (lines 56-82)                                                        *)
(***************************************************************************)
\* self.encoder(obs)
Encode(s, obs) == [encoder |-> s.params["encoder"], obs |-> obs]

\* the indices Categorical(softmax(logits)).sample() can return: softmax
\* gives every index positive probability
SkillSupport(n) == 0..(n - 1)

\* a caller-supplied meta is kept, and a skill is sampled only without one
SampledMetaUnlessGiven(n, meta, skill) ==
    IF meta = None THEN OneHot(n, skill) ELSE meta

\* lines 66-68: the local name meta is rebound to a fresh one-hot vector;
\* the caller's meta is never read
SampledMeta(n, meta, skill) == OneHot(n, skill)

\* lines 70-80: the action computed from the actor's distribution over
\* inpt = cat(h, meta)
ActAction(s, h, meta, step, eval_mode, noise) ==
    IF eval_mode
    THEN [kind |-> "mean", actor |-> s.params["actor"], encoder |-> h.encoder,
          obs |-> h.obs, skill |-> meta, step |-> step, noise |-> NoNoise]
    ELSE IF step < NumExplSteps
         THEN [kind |-> "uniform", actor |-> 0, encoder |-> 0, obs |-> "o1",
               skill |-> <<>>, step |-> 0, noise |-> noise]
         ELSE [kind |-> "sample", actor |-> s.params["actor"],
               encoder |-> h.encoder, obs |-> h.obs, skill |-> meta,
               step |-> step, noise |-> noise]

\* the action noise a call draws: dist.mean draws none
NoiseDraws(eval_mode) == IF eval_mode THEN {NoNoise} ELSE Noise

\* the whole of act: the agent afterwards and the returned action
ActOp(c, s, obs, meta, step, eval_mode, skill, noise) ==
    LET h  == Encode(s, obs)
        m  == SampledMeta(c.skill_dim, meta, skill)
        s1 == [s EXCEPT !.current_meta = m]
    IN  [agent  |-> s1,
         action |-> ActAction(s1, h, m, step, eval_mode, noise)]

Act(a) ==
    \E obs \in Obs, meta \in CallerMetas(cfg.skill_dim), step \in Steps,
       eval_mode \in BOOLEAN, skill \in SkillSupport(cfg.skill_dim) :
      \E noise \in NoiseDraws(eval_mode) :
        LET r == ActOp(cfg, agents[a], obs, meta, step, eval_mode, skill, noise)
        IN  /\ agents' = [agents EXCEPT ![a] = r.agent]
            /\ sampled' = [sampled EXCEPT ![a] = OneHot(cfg.skill_dim, skill)]
            /\ last' = [NoCall EXCEPT !.op = "act", !.agent = a,
                                      !.obs = obs, !.meta = meta, !.step = step,
                                      !.eval_mode = eval_mode,
                                      !.draw_skill = skill, !.draw_noise = noise,
                                      !.action = r.action]
            /\ UNCHANGED <<cfg, replay_drawn>>

(***************************************************************************)
(* get_meta_specs, get_current_meta (lines 92-98)                           *)
(***************************************************************************)
MetaSpecs(c) == [shape |-> <<c.skill_dim>>, dtype |-> "float32", name |-> "skill"]

GetMetaSpecs(a) ==
    /\ last' = [NoCall EXCEPT !.op = "get_meta_specs", !.agent = a,
                              !.specs = <<MetaSpecs(cfg)>>]
    /\ UNCHANGED <<cfg, agents, replay_drawn, sampled>>

\* the value stored under the key "skill"; None.cpu() raises
CurrentMetaOp(s) ==
    IF s.current_meta = None
    THEN [raised |-> TRUE, skill |-> None]
    ELSE [raised |-> FALSE, skill |-> s.current_meta]

GetCurrentMeta(a) ==
    LET r == CurrentMetaOp(agents[a])
    IN  /\ last' = [NoCall EXCEPT !.op = "get_current_meta", !.agent = a,
                                  !.raised = r.raised, !.ret_meta = r.skill]
        /\ UNCHANGED <<cfg, agents, replay_drawn, sampled>>

(***************************************************************************)
(* Autograd and optimizer primitives                                        *)
(***************************************************************************)
\* an optimizer event, with the gradient buffers as it leaves them
Ev(kind, on, grads) == [ev |-> kind, on |-> on, grads |-> grads]

\* a running computation: the agent, the optimizer events so far
Log(r, kind, on) == [r EXCEPT !.trace = Append(@, Ev(kind, on, r.agent.grads))]

\* opt.zero_grad(set_to_none=True): .grad of its parameters becomes None
ZeroGradNone(r, opt) ==
    Log([r EXCEPT !.agent.grads =
            [n \in Nets |-> IF n \in OptParams(opt) THEN NoGrad ELSE @[n]]],
        "zero_grad", opt)

\* opt.zero_grad(): the buffers of its parameters hold no contribution
\* (zero tensors, or None where that is the library's default; the
\* backward pass that follows at line 137 fills them either way)
ZeroGrad(r, opt) ==
    Log([r EXCEPT !.agent.grads =
            [n \in Nets |-> IF n \in OptParams(opt) THEN {} ELSE @[n]]],
        "zero_grad", opt)

\* loss.backward(): the loss's gradient is accumulated into .grad of
\* every parameter the loss was computed from
Backward(r, loss, nets) ==
    Log([r EXCEPT !.agent.grads =
            [n \in Nets |-> IF n \notin nets THEN @[n]
                            ELSE IF @[n] = NoGrad THEN {loss}
                            ELSE @[n] \cup {loss}]],
        "backward", loss)

\* whether step() moves a parameter: Adam skips .grad = None, and on a
\* buffer without contribution it has nothing to apply
HasGrad(s, n) == s.grads[n] # NoGrad /\ s.grads[n] # {}

\* opt.step()
OptStep(r, opt) ==
    LET s     == r.agent
        moved == {n \in OptParams(opt) : HasGrad(s, n)}
    IN  Log([r EXCEPT
                !.agent.params = [n \in Nets |-> IF n \in moved THEN @[n] + 1 ELSE @[n]],
                !.agent.opt_steps[opt] = IF moved = {} THEN @ ELSE @ + 1],
            "step", opt)

\* the parameters a tensor computed from obs carries gradient to: the
\* encoder's, unless the tensor was detached
ObsGraph(obs) == IF obs.attached THEN {"encoder"} ELSE {}

\* tensor.detach()
Detach(obs) == [obs EXCEPT !.attached = FALSE]

(***************************************************************************)
(* update_actor_and_controller (lines 100-145)                              *)
(***************************************************************************)
\* line 129: the value tensor is built on "cuda:0" and holds the index 1;
\* log_prob raises unless the distribution is on that device and 1 is a
\* skill index
DiagnosticRaises(c) == ~c.on_cuda0 \/ c.skill_dim < 2

\* lines 104-108: Q = min(critic(obs, actor(obs).sample()))
QValue(s, obs) ==
    [critic_trunk |-> s.params["critic_trunk"],
     critic_heads |-> s.params["critic_heads"],
     actor |-> s.params["actor"], batch |-> obs.batch]

\* the actor update also stepping the critic optimizer on the gradient
\* the actor loss left in the critic
UpdateActorSteppingCritic(c, r, obs) ==
    LET r1 == ZeroGradNone(r, "actor_opt")
        r2 == Backward(r1, "actor_loss",
                       {"actor", "critic_trunk", "critic_heads"} \cup ObsGraph(obs))
        r3 == OptStep(OptStep(r2, "actor_opt"), "critic_opt")
    IN  [r3 EXCEPT !.metrics = @ \cup
            (IF Telemetry THEN {"actor_loss", "actor_logprob", "actor_ent"} ELSE {})]

\* lines 110-121: the actor update
UpdateActor(c, r, obs) ==
    LET r1 == ZeroGradNone(r, "actor_opt")
        r2 == Backward(r1, "actor_loss",
                       {"actor", "critic_trunk", "critic_heads"} \cup ObsGraph(obs))
        r3 == OptStep(r2, "actor_opt")
    IN  [r3 EXCEPT !.metrics = @ \cup
            (IF Telemetry THEN {"actor_loss", "actor_logprob", "actor_ent"} ELSE {})]

\* the encoder optimizer joining on the update_encoder flag instead
WithEncoderOptOnFlag(c) == c.update_encoder

\* lines 134-136 and 139-140: the encoder optimizer joins the controller
\* update when the agent has one
WithEncoderOpt(c) == c.encoder_opt

\* the advantage left attached to the graph of Q
AdvantageGraphAttached(q) == {"actor", "critic_trunk", "critic_heads"}

\* line 131: the advantage is detached: it carries gradient to nothing
AdvantageGraph(q) == {}

\* lines 125-143: the controller update; the advantage is detached, so
\* the loss reaches the skill predictor's parameters and, through an
\* attached obs, the encoder's
UpdateController(c, r, q, obs) ==
    IF DiagnosticRaises(c)
    THEN [r EXCEPT !.raised = TRUE]
    ELSE LET r0 == [r EXCEPT !.adv_q = q]
             r1 == ZeroGrad(r0, "diayn_opt")
             r2 == IF WithEncoderOpt(c) THEN ZeroGradNone(r1, "encoder_opt") ELSE r1
             r3 == Backward(r2, "diayn_loss",
                            {"diayn"} \cup ObsGraph(obs) \cup AdvantageGraph(q))
             r4 == OptStep(r3, "diayn_opt")
             r5 == IF WithEncoderOpt(c) THEN OptStep(r4, "encoder_opt") ELSE r4
         IN  [r5 EXCEPT !.metrics = @ \cup
                 (IF Telemetry THEN {"diayn_loss"} ELSE {})]

UpdateActorAndController(c, r, obs) ==
    LET q == QValue(r.agent, obs)
    IN  UpdateController(c, UpdateActor(c, r, obs), q, obs)

(***************************************************************************)
(* update (lines 147-192)                                                   *)
(***************************************************************************)
\* DDPGAgent.update_critic: zero, backward and step of the critic
\* optimizer on the Bellman loss of the (detached) augmented observations
UpdateCritic(c, r, obs, next_obs) ==
    LET r1 == ZeroGradNone(r, "critic_opt")
        r2 == Backward(r1, "critic_loss",
                       {"critic_trunk", "critic_heads"} \cup ObsGraph(obs))
        r3 == OptStep(r2, "critic_opt")
    IN  [r3 EXCEPT !.metrics = @ \cup (IF Telemetry THEN {"critic_loss"} ELSE {})]

\* one parameter of utils.soft_update_params with tau = 1/2: the target
\* moves half of the way to the source, and at least one unit
SoftUpdateParam(src, tgt) ==
    IF src = tgt THEN tgt
    ELSE IF src > tgt THEN tgt + ((src - tgt + 1) \div 2)
    ELSE tgt - ((tgt - src + 1) \div 2)

\* line 189: utils.soft_update_params(self.critic, self.critic_target, tau)
SoftUpdateTarget(r) ==
    Log([r EXCEPT
            !.agent.params["target_trunk"] =
                SoftUpdateParam(r.agent.params["critic_trunk"], @),
            !.agent.params["target_heads"] =
                SoftUpdateParam(r.agent.params["critic_heads"], @)],
        "soft_update", "critic_target")

\* the cadence test inverted
SkippedOnMultiples(step) == step % UpdateEverySteps = 0

\* line 155
Skipped(step) == step % UpdateEverySteps # 0

\* lines 164-178: aug_and_encode of the batch, detached when the encoder
\* is not to be updated, with the batch's skill appended
EncodeBatch(c, s, batch) ==
    LET enc == [encoder |-> s.params["encoder"], batch |-> batch, attached |-> TRUE]
    IN  IF ~c.update_encoder THEN Detach(enc) ELSE enc

\* what the critic and the actor/controller updates are handed (lines
\* 182 and 186)
UpdateInput(obs) == Detach(obs)

\* a running computation starts with no event, no metric, no batch drawn
Start(s) ==
    [agent |-> s, trace |-> <<>>, metrics |-> {}, raised |-> FALSE,
     skipped |-> FALSE, batches |-> 0, adv_q |-> NoQ,
     uac_pre |-> s, uac_post |-> s, uac_start |-> 0]

\* the whole of update; drawn is the position of the replay iterator and
\* names the batch next(replay_iter) returns.  When line 129 raises, the
\* exception leaves update: nothing is returned and the target is not
\* updated, while the critic and actor steps already taken stay.
UpdateOp(c, s, drawn, step) ==
    IF Skipped(step)
    THEN [Start(s) EXCEPT !.skipped = TRUE]
    ELSE LET batch == drawn
             r0 == [Start(s) EXCEPT !.batches = 1,
                        !.metrics = IF Telemetry
                                    THEN {"extr_reward", "batch_reward"} ELSE {}]
             obs == EncodeBatch(c, s, batch)
             r1 == UpdateCritic(c, r0, UpdateInput(obs), UpdateInput(obs))
             r2 == UpdateActorAndController(c, r1, UpdateInput(obs))
             r3 == [r2 EXCEPT !.uac_pre = r1.agent, !.uac_post = r2.agent,
                              !.uac_start = Len(r1.trace)]
         IN  IF r3.raised THEN [r3 EXCEPT !.metrics = {}]
             ELSE SoftUpdateTarget(r3)

Update(a) ==
    \E step \in Steps :
        LET r == UpdateOp(cfg, agents[a], replay_drawn, step)
        IN  /\ replay_drawn + r.batches <= MaxBatches
            /\ agents' = [agents EXCEPT ![a] = r.agent]
            /\ replay_drawn' = replay_drawn + r.batches
            /\ last' = [NoCall EXCEPT !.op = "update", !.agent = a, !.step = step,
                                      !.metrics = r.metrics, !.trace = r.trace,
                                      !.raised = r.raised, !.skipped = r.skipped,
                                      !.batches = r.batches, !.adv_q = r.adv_q,
                                      !.uac_pre = r.uac_pre, !.uac_post = r.uac_post,
                                      !.uac_start = r.uac_start]
            /\ UNCHANGED <<cfg, sampled>>

(***************************************************************************)
(* init_from (lines 84-90)                                                  *)
(***************************************************************************)
\* utils.hard_update_params(net, target_net) on the parameter groups nets:
\* the values of src are copied over those of dst
HardUpdateParams(src, dst, nets) ==
    [dst EXCEPT !.params = [n \in Nets |-> IF n \in nets THEN src.params[n] ELSE @[n]]]

\* the critic trunk copied whatever init_critic says
CopiedNetsAlwaysCritic(c) == {"encoder", "actor", "diayn", "critic_trunk"}

\* the parameter groups init_from copies
CopiedNets(c) ==
    {"encoder", "actor", "diayn"} \cup (IF c.init_critic THEN {"critic_trunk"} ELSE {})

\* init_from also taking over the source agent's current_meta
InitFromOpWithMeta(c, s, other) ==
    [HardUpdateParams(other, s, CopiedNets(c)) EXCEPT !.current_meta = other.current_meta]

InitFromOp(c, s, other) == HardUpdateParams(other, s, CopiedNets(c))

InitFrom(a, b) ==
    /\ agents' = [agents EXCEPT ![a] = InitFromOp(cfg, agents[a], agents[b])]
    /\ last' = [NoCall EXCEPT !.op = "init_from", !.agent = a, !.src = b]
    /\ UNCHANGED <<cfg, replay_drawn, sampled>>

\* the agent the training loop drives
Callers == {"self"}

Next ==
    \E a \in Callers :
        \/ Act(a)
        \/ Update(a)
        \/ \E b \in Agents \ {a} : InitFrom(a, b)
        \/ GetMetaSpecs(a)
        \/ GetCurrentMeta(a)

Spec == Init /\ [][Next]_vars

(***************************************************************************)
(* Properties                                                               *)
(***************************************************************************)
RECURSIVE SumSeq(_)
SumSeq(v) == IF v = <<>> THEN 0 ELSE Head(v) + SumSeq(Tail(v))

\* every random draw an act call can make
AllNoise == Noise \cup {NoNoise}

\* C1: in evaluation mode the returned action is the same whatever the
\* random draws inside the call: every eval-mode act step returns the
\* action that any other draw of the skill and of the noise, from the
\* same agent state and with the same arguments, would have returned.
EvalActDeterministic ==
    [][(last'.op = "act" /\ last'.eval_mode) =>
         \A skill \in SkillSupport(cfg.skill_dim), noise \in AllNoise :
            ActOp(cfg, agents[last'.agent], last'.obs, last'.meta, last'.step,
                  TRUE, skill, noise).action = last'.action]_vars

\* C2: whenever current_meta has been set it is a vector of length
\* skill_dim with exactly one entry 1, every other entry 0, and sum 1.
CurrentMetaOneHot ==
    \A a \in Agents :
        LET m == agents[a].current_meta
        IN  m # None =>
              /\ Len(m) = cfg.skill_dim
              /\ \A i \in 1..Len(m) : m[i] \in {0, 1}
              /\ Cardinality({i \in 1..Len(m) : m[i] = 1}) = 1
              /\ SumSeq(m) = 1

\* C2 witness: act has sampled the last skill of a skill_dim > 1 agent.
CurrentMetaOneHotWitness ==
    /\ last.op = "act"
    /\ cfg.skill_dim > 1
    /\ agents[last.agent].current_meta # None
    /\ agents[last.agent].current_meta[cfg.skill_dim] = 1

\* C6: the meta argument of act is ignored: an act step leaves the agent
\* and returns the action that the same call with any other meta argument
\* (same observation, step, eval_mode, parameters and draws) would have,
\* and the stored current_meta is the one-hot vector of the sampled skill.
MetaArgumentIgnored ==
    [][last'.op = "act" =>
         /\ \A meta \in CallerMetas(cfg.skill_dim) :
               LET r == ActOp(cfg, agents[last'.agent], last'.obs, meta,
                              last'.step, last'.eval_mode,
                              last'.draw_skill, last'.draw_noise)
               IN  /\ r.agent = agents'[last'.agent]
                   /\ r.action = last'.action
         /\ agents'[last'.agent].current_meta =
               [i \in 1..cfg.skill_dim |-> IF i = last'.draw_skill + 1 THEN 1 ELSE 0]
      ]_vars

\* C6 witness: act was called with a meta vector and sampled another skill.
MetaArgumentIgnoredWitness ==
    /\ last.op = "act"
    /\ last.meta # None
    /\ agents[last.agent].current_meta # last.meta

\* C10: current_meta is written by act alone.  It always is the skill
\* vector the agent's most recent act sampled; get_current_meta returns
\* exactly that vector; a step of any other operation leaves it as it
\* was; and an act step changes no parameter, gradient buffer or
\* optimizer state, nor anything of another agent.
CurrentMetaOnlyByAct ==
    /\ [](\A a \in Agents : agents[a].current_meta = sampled[a])
    /\ []((last.op = "get_current_meta" /\ ~last.raised) =>
             last.ret_meta = sampled[last.agent])
    /\ [][/\ last'.op # "act" =>
                \A a \in Agents : agents'[a].current_meta = agents[a].current_meta
          /\ last'.op = "act" =>
                /\ agents'[last'.agent].params = agents[last'.agent].params
                /\ agents'[last'.agent].grads = agents[last'.agent].grads
                /\ agents'[last'.agent].opt_steps = agents[last'.agent].opt_steps
                /\ \A a \in Agents \ {last'.agent} : agents'[a] = agents[a]
                /\ replay_drawn' = replay_drawn
         ]_vars

\* C10 witness: after an act and a later completed update, then
\* get_current_meta returned a skill vector.
CurrentMetaOnlyByActWitness ==
    /\ last.op = "get_current_meta"
    /\ ~last.raised
    /\ last.ret_meta # None
    /\ agents[last.agent].opt_steps["diayn_opt"] > 0
    /\ agents[last.agent].params["encoder"] = agents["other"].params["encoder"]

\* C3: an update whose step is no multiple of update_every_steps returns
\* empty metrics, draws no batch and leaves every agent (parameters,
\* gradient buffers, optimizers, critic target, current_meta) as it was;
\* an update whose step is a multiple draws exactly one batch.
SkippedUpdateIsNoOp ==
    [][last'.op = "update" =>
         IF last'.step % UpdateEverySteps # 0
         THEN /\ last'.metrics = {}
              /\ last'.trace = <<>>
              /\ replay_drawn' = replay_drawn
              /\ agents' = agents
         ELSE replay_drawn' = replay_drawn + 1
      ]_vars

\* C3 witness: an update was skipped by an agent that had trained and
\* acted before.
SkippedUpdateIsNoOpWitness ==
    /\ last.op = "update"
    /\ last.step % UpdateEverySteps # 0
    /\ replay_drawn > 0
    /\ agents[last.agent].current_meta # None

CriticNets == {"critic_trunk", "critic_heads", "target_trunk", "target_heads"}

\* C4: one call of update_actor_and_controller leaves every critic and
\* critic-target parameter, and the critic optimizer, as they were when
\* the call started.
CriticUntouchedByActorAndController ==
    (last.op = "update" /\ ~last.skipped) =>
        /\ \A n \in CriticNets : last.uac_post.params[n] = last.uac_pre.params[n]
        /\ last.uac_post.opt_steps["critic_opt"] = last.uac_pre.opt_steps["critic_opt"]

\* C4 witness: the call stepped the actor and left the actor loss's
\* gradient in the critic's buffers.
CriticUntouchedWitness ==
    /\ last.op = "update"
    /\ ~last.skipped
    /\ ~last.raised
    /\ last.uac_post.params["actor"] # last.uac_pre.params["actor"]
    /\ "actor_loss" \in last.uac_post.grads["critic_trunk"]
    /\ "actor_loss" \in last.uac_post.grads["critic_heads"]

\* C5: init_from(other) makes this agent's encoder, actor and skill
\* predictor parameters equal to the source's; the critic trunk becomes
\* the source's if init_critic is set and keeps its value otherwise; the
\* critic heads, the critic target, the gradient buffers, the optimizers
\* and current_meta of this agent, and the whole source agent, keep their
\* values.
InitFromCopies ==
    [][last'.op = "init_from" =>
         LET a == last'.agent
             b == last'.src
         IN  /\ \A n \in {"encoder", "actor", "diayn"} :
                    agents'[a].params[n] = agents[b].params[n]
             /\ agents'[a].params["critic_trunk"] =
                    IF cfg.init_critic THEN agents[b].params["critic_trunk"]
                    ELSE agents[a].params["critic_trunk"]
             /\ \A n \in {"critic_heads", "target_trunk", "target_heads"} :
                    agents'[a].params[n] = agents[a].params[n]
             /\ agents'[a].grads = agents[a].grads
             /\ agents'[a].opt_steps = agents[a].opt_steps
             /\ agents'[a].current_meta = agents[a].current_meta
             /\ agents'[b] = agents[b]
      ]_vars

\* C5 witness: init_from without init_critic on a trained agent whose
\* critic trunk differs from the source's, and stays so.
InitFromCopiesWitness ==
    /\ last.op = "init_from"
    /\ ~cfg.init_critic
    /\ agents[last.agent].opt_steps["critic_opt"] > 0
    /\ agents[last.agent].params["critic_trunk"] # agents[last.src].params["critic_trunk"]
    /\ agents[last.agent].params["actor"] = agents[last.src].params["actor"]
    /\ agents[last.agent].current_meta # None

\* the places of an event in the latest call's trace
At(kind, on) ==
    {i \in 1..Len(last.trace) : last.trace[i].ev = kind /\ last.trace[i].on = on}

\* the event occurs once
Once(kind, on) == Cardinality(At(kind, on)) = 1

\* both occur once, the first before the second
Before(k1, o1, k2, o2) ==
    /\ Once(k1, o1)
    /\ Once(k2, o2)
    /\ \A i \in At(k1, o1), j \in At(k2, o2) : i < j

\* C7: in every update that is not skipped the critic update (zero,
\* backward, step) completes before the actor update starts, the actor
\* optimizer step comes before the controller's backward pass and step,
\* the soft update of the critic target comes last and exactly once, and
\* the advantage is computed from the Q evaluated before the actor step.
UpdateStrictOrder ==
    (last.op = "update" /\ ~last.skipped) =>
        /\ Before("zero_grad", "critic_opt", "backward", "critic_loss")
        /\ Before("backward", "critic_loss", "step", "critic_opt")
        /\ Before("step", "critic_opt", "zero_grad", "actor_opt")
        /\ Before("zero_grad", "actor_opt", "backward", "actor_loss")
        /\ Before("backward", "actor_loss", "step", "actor_opt")
        /\ Before("step", "actor_opt", "backward", "diayn_loss")
        /\ Before("backward", "diayn_loss", "step", "diayn_opt")
        /\ Once("soft_update", "critic_target")
        /\ At("soft_update", "critic_target") = {Len(last.trace)}
        /\ last.adv_q.actor = last.uac_pre.params["actor"]
        /\ last.adv_q.actor # last.uac_post.params["actor"]

\* the events of update_actor_and_controller in the latest call
UacEvents == {i \in 1..Len(last.trace) : i > last.uac_start
                                        /\ last.trace[i].ev # "soft_update"}

\* C8: in every update_actor_and_controller call the actor and the
\* controller update are isolated: each backward pass comes after a
\* zero_grad of its own optimizer with no other backward pass between;
\* the actor optimizer steps on a buffer holding the actor loss alone and
\* the skill-predictor optimizer on one holding the controller loss
\* alone; the controller loss reaches no actor or critic buffer and the
\* actor loss no skill-predictor buffer.
ActorControllerIsolated ==
    (last.op = "update" /\ ~last.skipped) =>
        \A i \in UacEvents :
            LET e == last.trace[i]
                own == IF e.on \in {"actor_loss", "actor_opt"}
                       THEN [opt |-> "actor_opt", loss |-> "actor_loss", net |-> "actor"]
                       ELSE [opt |-> "diayn_opt", loss |-> "diayn_loss", net |-> "diayn"]
            IN  /\ e.ev = "backward" =>
                      \E j \in UacEvents :
                          /\ j < i
                          /\ last.trace[j].ev = "zero_grad"
                          /\ last.trace[j].on = own.opt
                          /\ \A k \in (j + 1)..(i - 1) : last.trace[k].ev # "backward"
                /\ (e.ev = "step" /\ e.on \in {"actor_opt", "diayn_opt"}) =>
                      e.grads[own.net] = {own.loss}
                /\ \A n \in {"actor", "critic_trunk", "critic_heads"} :
                      "diayn_loss" \notin e.grads[n]
                /\ "actor_loss" \notin e.grads["diayn"]

\* C8 witness: a call ran both updates: the actor's buffer holds the
\* actor loss, the skill predictor's the controller loss, and both moved.
ActorControllerIsolatedWitness ==
    /\ last.op = "update"
    /\ ~last.skipped
    /\ ~last.raised
    /\ last.uac_post.grads["actor"] = {"actor_loss"}
    /\ last.uac_post.grads["diayn"] = {"diayn_loss"}
    /\ last.uac_post.params["actor"] # last.uac_pre.params["actor"]
    /\ last.uac_post.params["diayn"] # last.uac_pre.params["diayn"]

\* the encoder optimizer is zeroed / stepped in the latest
\* update_actor_and_controller call
EncoderOptEvent(kind) ==
    \E i \in UacEvents : last.trace[i].ev = kind /\ last.trace[i].on = "encoder_opt"

\* C9 as stated: the encoder optimizer is zeroed and stepped only if
\* update_encoder is set; with update_encoder unset it is neither zeroed
\* nor stepped.
EncoderOptOnlyWhenUpdateEncoder ==
    (last.op = "update" /\ ~last.skipped) =>
        /\ (EncoderOptEvent("zero_grad") \/ EncoderOptEvent("step")) => cfg.update_encoder
        /\ ~cfg.update_encoder =>
              (~EncoderOptEvent("zero_grad") /\ ~EncoderOptEvent("step"))

\* C9 as amended: the encoder optimizer is zeroed and stepped in
\* update_actor_and_controller only if the agent has one, and then in
\* every call that reaches the controller update, whatever update_encoder
\* says; and no update changes the encoder's parameters.
EncoderOptWhenPresent ==
    /\ []((last.op = "update" /\ ~last.skipped) =>
            /\ (EncoderOptEvent("zero_grad") \/ EncoderOptEvent("step")) => cfg.encoder_opt
            /\ (cfg.encoder_opt /\ ~last.raised) =>
                  /\ Before("zero_grad", "encoder_opt", "backward", "diayn_loss")
                  /\ Before("backward", "diayn_loss", "step", "encoder_opt"))
    /\ [][last'.op = "update" =>
            agents'[last'.agent].params["encoder"] = agents[last'.agent].params["encoder"]
         ]_vars

\* C9 witness: with update_encoder unset, a call zeroed and stepped the
\* encoder optimizer the agent has.
EncoderOptWhenPresentWitness ==
    /\ last.op = "update"
    /\ ~last.skipped
    /\ ~cfg.update_encoder
    /\ cfg.encoder_opt
    /\ EncoderOptEvent("zero_grad")
    /\ EncoderOptEvent("step")
====
